---- MODULE Spec2Model ----
(***************************************************************************)
(* Model of essential_extensions: the SubdomainRedirect rule store, its    *)
(* validation (clean), the resolver (get_redirect_for_subdomain) and the   *)
(* request interceptor (SubdomainRedirectMiddleware.__call__).             *)
(*                                                                         *)
(* Python strings are modelled as sequences of one-character strings, so   *)
(* that lower(), split(), endswith() and rsplit() are computed character   *)
(* by character as the code computes them.                                 *)
(***************************************************************************)
EXTENDS Naturals, Sequences, FiniteSets, TLC

VARIABLES
    rules,       \* the rows of the SubdomainRedirect table
    validated,   \* history: subdomains of the rows whose latest write went through the admin form
    objects,     \* the rows of the host project's models a rule can link to
    main_domain, \* settings.MAIN_DOMAIN
    last,        \* the call being answered (a request, or a lookup) and its result; idle between calls
    probe        \* argument and result of a single call of a pure function

vars == <<rules, validated, objects, main_domain, last, probe>>

----------------------------------------------------------------------------
(* Bounds of the model *)

\* most rules held by the store at once
MaxRules == 2
\* longest subdomain drawn for the validation of a single rule
MaxSubLen == 3
\* most images held by the image table at once
MaxImages == 2

----------------------------------------------------------------------------
(* Python str operations *)

UpperChars == <<"A","B","C","D","E","F","G","H","I","J","K","L","M",
                "N","O","P","Q","R","S","T","U","V","W","X","Y","Z">>
LowerChars == <<"a","b","c","d","e","f","g","h","i","j","k","l","m",
                "n","o","p","q","r","s","t","u","v","w","x","y","z">>
DigitChars == <<"0","1","2","3","4","5","6","7","8","9">>

Range(f) == {f[i] : i \in DOMAIN f}

UpperSet == Range(UpperChars)
DigitSet == Range(DigitChars)
AlnumSet == Range(UpperChars) \cup Range(LowerChars) \cup Range(DigitChars)

\* the lowercase letter of each uppercase letter
ToLower == [c \in UpperSet |->
               LowerChars[CHOOSE i \in DOMAIN UpperChars : UpperChars[i] = c]]

\* str.lower() on one character
LowerChar(c) == IF c \in UpperSet THEN ToLower[c] ELSE c

\* str.lower()
Lower(s) == [i \in DOMAIN s |-> LowerChar(s[i])]

\* str.isalnum(): every character a letter or a digit, and at least one character
IsAlnum(s) == Len(s) > 0 /\ \A i \in DOMAIN s : s[i] \in AlnumSet

\* c in s
Contains(s, c) == \E i \in DOMAIN s : s[i] = c

\* s.split(c)[0] for a one-character separator: the text before the first c
SplitFirst(s, c) ==
    IF Contains(s, c)
    THEN SubSeq(s, 1, (CHOOSE i \in DOMAIN s :
                          s[i] = c /\ \A j \in 1..(i-1) : s[j] # c) - 1)
    ELSE s

\* s.endswith(suffix)
EndsWith(s, suffix) ==
    /\ Len(suffix) <= Len(s)
    /\ SubSeq(s, Len(s) - Len(suffix) + 1, Len(s)) = suffix

\* the positions at which sep occurs in s
Occurrences(s, sep) ==
    {i \in 1..(Len(s) - Len(sep) + 1) : SubSeq(s, i, i + Len(sep) - 1) = sep}

\* s.rsplit(sep, 1)[0]: the text before the last occurrence of sep
RSplitFirst(s, sep) ==
    IF Occurrences(s, sep) = {}
    THEN s
    ELSE SubSeq(s, 1, (CHOOSE i \in Occurrences(s, sep) :
                          \A j \in Occurrences(s, sep) : j <= i) - 1)

\* all strings over alphabet A of length at most n
StringsUpTo(A, n) == UNION {[1..k -> A] : k \in 0..n}

----------------------------------------------------------------------------
(* String literals used as inputs *)

EMPTY == << >>
S_example_com == <<"e","x","a","m","p","l","e",".","c","o","m">>
S_www == <<"w","w","w">>
S_shop == <<"s","h","o","p">>
S_Shop == <<"S","h","o","p">>
S_Shop_example_com == S_Shop \o <<".">> \o S_example_com
S_a_dot_b == <<"a",".","b">>
S_www_dot_shop == S_www \o <<".">> \o S_shop
S_a_b_c == <<"a","_","b","-","c">>
S_ab_bang == <<"a","b","!","-">>
S_store == <<"/","s","t","o","r","e","/">>
S_lol == <<"/","l","o","l","/">>
S_root == <<"/">>
S_page_url == <<"/","p","a","g","e","/","1","/">>

----------------------------------------------------------------------------
(* SubdomainRedirect: the model class *)

REDIRECT_TYPE_FULL == "full"
REDIRECT_TYPE_PATH_PRESERVE == "path_preserve"
REDIRECT_TYPE_CHOICES == {REDIRECT_TYPE_FULL, REDIRECT_TYPE_PATH_PRESERVE}

\* content_type = NULL and object_id = NULL
NoContentType == "none"
NoObjectId == 0

\* mutant of clean: the redirect configuration is not validated
clean_no_config(self) ==
    LET sub == Lower(SplitFirst(self.subdomain, "."))
        normal == IF self.subdomain # EMPTY
                  THEN [self EXCEPT !.subdomain = sub] ELSE self
    IN  IF self.subdomain # EMPTY /\ ~IsAlnum(sub) /\ ~Contains(sub, "-")
        THEN [ok |-> FALSE, error |-> "subdomain_chars", rule |-> normal]
        ELSE IF self.subdomain # EMPTY /\ Len(sub) < 2
        THEN [ok |-> FALSE, error |-> "subdomain_length", rule |-> normal]
        ELSE [ok |-> TRUE, error |-> "", rule |-> normal]

\* SubdomainRedirect.clean: ok = no ValidationError raised; rule = self as
\* clean leaves it (the subdomain is rewritten before any check)
clean(self) ==
    LET sub == Lower(SplitFirst(self.subdomain, "."))
        normal == IF self.subdomain # EMPTY
                  THEN [self EXCEPT !.subdomain = sub] ELSE self
    IN  IF self.subdomain # EMPTY /\ ~IsAlnum(sub) /\ ~Contains(sub, "-")
        THEN [ok |-> FALSE, error |-> "subdomain_chars", rule |-> normal]
        ELSE IF self.subdomain # EMPTY /\ Len(sub) < 2
        THEN [ok |-> FALSE, error |-> "subdomain_length", rule |-> normal]
        ELSE IF self.redirect_type = REDIRECT_TYPE_FULL /\ self.redirect_path = EMPTY
        THEN [ok |-> FALSE, error |-> "full_requires_path", rule |-> normal]
        ELSE IF self.redirect_type = REDIRECT_TYPE_PATH_PRESERVE
                /\ self.redirect_path # EMPTY
        THEN [ok |-> FALSE, error |-> "preserve_forbids_path", rule |-> normal]
        ELSE [ok |-> TRUE, error |-> "", rule |-> normal]

\* mutant of get_redirect_for_subdomain: is_active is not part of the filter
get_redirect_any_status(table, subdomain) ==
    LET found == {r \in table : r.subdomain = Lower(subdomain)}
    IN  IF found = {} THEN [found |-> "none", rule |-> {}]
        ELSE IF Cardinality(found) = 1 THEN [found |-> "one", rule |-> found]
        ELSE [found |-> "MultipleObjectsReturned", rule |-> {}]

\* mutant of get_redirect_for_subdomain: the argument is not lowercased
get_redirect_exact_case(table, subdomain) ==
    LET found == {r \in table : r.subdomain = subdomain /\ r.is_active}
    IN  IF found = {} THEN [found |-> "none", rule |-> {}]
        ELSE IF Cardinality(found) = 1 THEN [found |-> "one", rule |-> found]
        ELSE [found |-> "MultipleObjectsReturned", rule |-> {}]

\* SubdomainRedirect.get_redirect_for_subdomain over the rows of the table:
\* objects.get(subdomain=subdomain.lower(), is_active=True) returns the one
\* matching row, DoesNotExist is turned into None, and a second matching row
\* raises MultipleObjectsReturned, which is not caught. rule is the set
\* holding the returned row (empty for None).
get_redirect_for_subdomain(table, subdomain) ==
    LET found == {r \in table : r.subdomain = Lower(subdomain) /\ r.is_active}
    IN  IF found = {} THEN [found |-> "none", rule |-> {}]
        ELSE IF Cardinality(found) = 1 THEN [found |-> "one", rule |-> found]
        ELSE [found |-> "MultipleObjectsReturned", rule |-> {}]

\* SubdomainRedirect.get_redirect_url
get_redirect_url(self, request_path) ==
    IF self.redirect_type = REDIRECT_TYPE_FULL
    THEN self.redirect_path
    ELSE request_path

----------------------------------------------------------------------------
(* The linked objects of the host project *)

\* two models of the host project: Page defines get_absolute_url, Tag does not
ContentTypes == {"page", "tag"}
ObjectIds == {1}
AllObjects == [content_type : ContentTypes, id : ObjectIds]

\* hasattr(obj, 'get_absolute_url')
has_get_absolute_url(obj) == obj.content_type = "page"

\* obj.get_absolute_url()
get_absolute_url(obj) == S_page_url

\* SubdomainRedirect.content_object (GenericForeignKey): the set holding the
\* linked row, empty (None) when no target is set or the row does not exist
content_object(self, objs) ==
    IF self.content_type = NoContentType \/ self.object_id = NoObjectId
    THEN {}
    ELSE {o \in objs : o.content_type = self.content_type /\ o.id = self.object_id}

----------------------------------------------------------------------------
(* SubdomainRedirectMiddleware *)

NoRequest == [host |-> EMPTY, path |-> EMPTY, secure |-> FALSE]
NoResponse == [kind |-> "idle", status |-> 0, location |-> EMPTY,
               downstream |-> 0, forwarded |-> {}, queried |-> {}]
NoResult == [found |-> "", rule |-> {}]

\* between two calls
NoExchange == [op |-> "idle", request |-> NoRequest, response |-> NoResponse,
               query |-> EMPTY, result |-> NoResult]

\* return self.get_response(request): the downstream handler is called once
\* with the request and its response is returned
get_response(request, queried) ==
    [kind |-> "passthrough", status |-> 200, location |-> EMPTY,
     downstream |-> 1, forwarded |-> {request}, queried |-> queried]

\* mutant of redirect: the downstream handler is run before the redirect
redirect_after_downstream(redirect_url, queried) ==
    [kind |-> "redirect", status |-> 301, location |-> redirect_url,
     downstream |-> 1, forwarded |-> {}, queried |-> queried]

\* return redirect(redirect_url, permanent=True)
redirect(redirect_url, queried) ==
    [kind |-> "redirect", status |-> 301, location |-> redirect_url,
     downstream |-> 0, forwarded |-> {}, queried |-> queried]

\* mutant of raised: the exception is swallowed and the request goes on
raised_swallowed(name, request, queried) == get_response(request, queried)

\* an exception leaves __call__ (no try around line 122): the middleware
\* builds no response and the downstream handler is not called
raised(name, request, queried) ==
    [kind |-> name, status |-> 500, location |-> EMPTY,
     downstream |-> 0, forwarded |-> {}, queried |-> queried]

\* mutant of redirect_path_for: the linked object is ignored
redirect_path_literal(redirect_obj, request, objs) ==
    IF redirect_obj.redirect_type = REDIRECT_TYPE_FULL
    THEN redirect_obj.redirect_path
    ELSE request.path

\* mutant of redirect_path_for: the redirect type is tested after the linked object
redirect_path_linked_first(redirect_obj, request, objs) ==
    LET linked == content_object(redirect_obj, objs)
    IN  IF linked # {} /\ \A o \in linked : has_get_absolute_url(o)
        THEN get_absolute_url(CHOOSE o \in linked : TRUE)
        ELSE IF redirect_obj.redirect_type = REDIRECT_TYPE_FULL
        THEN redirect_obj.redirect_path
        ELSE request.path

\* the redirect path of lines 126-134
redirect_path_for(redirect_obj, request, objs) ==
    IF redirect_obj.redirect_type = REDIRECT_TYPE_FULL
    THEN LET linked == content_object(redirect_obj, objs)
         IN  IF linked # {} /\ \A o \in linked : has_get_absolute_url(o)
             THEN get_absolute_url(CHOOSE o \in linked : TRUE)
             ELSE redirect_obj.redirect_path
    ELSE request.path

\* mutant of scheme_of: the scheme of the request is not looked at
scheme_always_http(request) == <<"h","t","t","p">>

\* protocol = 'https' if request.is_secure() else 'http'
scheme_of(request) ==
    IF request.secure THEN <<"h","t","t","p","s">> ELSE <<"h","t","t","p">>

\* mutant of skips_lookup: 'www' is looked up like any other subdomain
skips_lookup_only_empty(subdomain) == subdomain = EMPTY

\* the negation of line 120: the main domain itself, or www
skips_lookup(subdomain) == ~(subdomain # EMPTY /\ subdomain \notin {EMPTY, S_www})

\* mutant of hostname_of: the port stays in the hostname
hostname_with_port(request) == Lower(request.host)

\* hostname = request.get_host().split(':')[0].lower()
hostname_of(request) == Lower(SplitFirst(request.host, ":"))

\* mutant of subdomain_of: the leftmost label of the hostname
subdomain_leftmost_label(hostname, suffix) == SplitFirst(hostname, ".")

\* subdomain = hostname.rsplit('.' + main_domain, 1)[0]
subdomain_of(hostname, suffix) == RSplitFirst(hostname, suffix)

\* what the database does to the query of the resolver: nothing, or the
\* exception objects.get raises when the database cannot be reached
NoFault == "none"
OperationalError == "OperationalError"

\* SubdomainRedirect.get_redirect_for_subdomain(subdomain) as called at line
\* 122: an exception other than DoesNotExist is not caught by the resolver
resolver_call(table, subdomain, fault) ==
    IF fault = NoFault
    THEN get_redirect_for_subdomain(table, subdomain)
    ELSE [found |-> fault, rule |-> {}]

\* SubdomainRedirectMiddleware.__call__ under a fault of the database
call_with(request, table, objs, md, fault) ==
    LET hostname == hostname_of(request)
        suffix == <<".">> \o md
        subdomain == subdomain_of(hostname, suffix)
    IN  IF EndsWith(hostname, suffix) /\ ~skips_lookup(subdomain)
        THEN LET got == resolver_call(table, subdomain, fault)
             IN  IF got.found = "one"
                 THEN LET redirect_obj == CHOOSE r \in got.rule : TRUE
                          protocol == scheme_of(request)
                      IN  redirect(protocol \o <<":","/","/">> \o md
                                     \o redirect_path_for(redirect_obj, request, objs),
                                   {subdomain})
                 ELSE IF got.found = "none"
                 THEN get_response(request, {subdomain})
                 ELSE raised(got.found, request, {subdomain})
        ELSE get_response(request, {})

\* SubdomainRedirectMiddleware.__call__
call(request, table, objs, md) ==
    call_with(request, table, objs, md, NoFault)

----------------------------------------------------------------------------
(* The admin form: GenericObjectSelectorForm / SubdomainRedirectForm *)

\* every character a decimal digit, and at least one character
IsDigits(s) == Len(s) > 0 /\ \A i \in DOMAIN s : s[i] \in DigitSet

DigitValue(c) == (CHOOSE i \in DOMAIN DigitChars : DigitChars[i] = c) - 1

\* int(s) for a string of decimal digits
RECURSIVE StrToInt(_)
StrToInt(s) ==
    IF s = EMPTY THEN 0
    ELSE StrToInt(SubSeq(s, 1, Len(s) - 1)) * 10 + DigitValue(s[Len(s)])

\* mutant of form_clean: the selected id is not looked up
form_clean_unchecked(data, objs) ==
    LET selected_id ==
            IF data.object_selector # EMPTY
            THEN (IF IsDigits(data.object_selector)
                  THEN StrToInt(data.object_selector) ELSE NoObjectId)
            ELSE data.object_id
    IN  IF data.content_type = NoContentType
        THEN [ok |-> FALSE, error |-> "select_content_type", object_id |-> NoObjectId]
        ELSE IF data.object_selector # EMPTY /\ ~IsDigits(data.object_selector)
        THEN [ok |-> FALSE, error |-> "invalid_selection", object_id |-> NoObjectId]
        ELSE IF selected_id = NoObjectId
        THEN [ok |-> FALSE, error |-> "select_object", object_id |-> NoObjectId]
        ELSE [ok |-> TRUE, error |-> "", object_id |-> selected_id]

\* GenericObjectSelectorForm.clean: ok = no ValidationError raised;
\* object_id = cleaned_data['object_id'] when ok
form_clean(data, objs) ==
    LET selected_id ==
            IF data.object_selector # EMPTY
            THEN (IF IsDigits(data.object_selector)
                  THEN StrToInt(data.object_selector) ELSE NoObjectId)
            ELSE data.object_id
    IN  IF data.content_type = NoContentType
        THEN [ok |-> FALSE, error |-> "select_content_type", object_id |-> NoObjectId]
        ELSE IF data.object_selector # EMPTY /\ ~IsDigits(data.object_selector)
        THEN [ok |-> FALSE, error |-> "invalid_selection", object_id |-> NoObjectId]
        ELSE IF selected_id = NoObjectId
        THEN [ok |-> FALSE, error |-> "select_object", object_id |-> NoObjectId]
        ELSE IF ~\E o \in objs : o.content_type = data.content_type /\ o.id = selected_id
        THEN [ok |-> FALSE, error |-> "object_missing", object_id |-> NoObjectId]
        ELSE [ok |-> TRUE, error |-> "", object_id |-> selected_id]

\* the model instance the form builds from its cleaned data (construct_instance)
instance_of(data, object_id) ==
    [subdomain |-> data.subdomain, redirect_type |-> data.redirect_type,
     redirect_path |-> data.redirect_path, is_active |-> data.is_active,
     content_type |-> data.content_type, object_id |-> object_id]

\* mutant of subdomain_is_unique: the column is not unique
subdomain_not_checked(sub, others) == TRUE

\* unique=True on subdomain: no other row holds the same value
subdomain_is_unique(sub, others) == \A r \in others : r.subdomain # sub

\* SubdomainRedirectForm.is_valid() for a row set `others` the instance is
\* compared with: the required subdomain field, GenericObjectSelectorForm.clean,
\* then the instance's clean() and validate_unique()
form_is_valid(data, others, objs) ==
    /\ data.subdomain # EMPTY
    /\ data.redirect_type \in REDIRECT_TYPE_CHOICES
    /\ LET form == form_clean(data, objs)
       IN  /\ form.ok
           /\ LET cleaned == clean(instance_of(data, form.object_id))
              IN  cleaned.ok /\ subdomain_is_unique(cleaned.rule.subdomain, others)

\* mutant of form_instance: the instance is written as the form built it,
\* without what clean() did to it
form_instance_as_posted(data, objs) ==
    instance_of(data, form_clean(data, objs).object_id)

\* the row form.save() writes
form_instance(data, objs) ==
    clean(instance_of(data, form_clean(data, objs).object_id)).rule

----------------------------------------------------------------------------
(* Inputs *)

Paths == {EMPTY, S_store}
Actives == BOOLEAN

\* subdomains typed into the admin form, and subdomains given to save()
FormSubdomains == {S_shop, S_Shop_example_com, S_www}
SaveSubdomains == {S_shop, S_Shop, S_www}

\* (content_type, object_id, object_selector) posted with the admin form
FormTargets ==
    {[content_type |-> NoContentType, object_id |-> NoObjectId, object_selector |-> EMPTY],
     [content_type |-> "page", object_id |-> 1, object_selector |-> EMPTY],
     [content_type |-> "page", object_id |-> NoObjectId, object_selector |-> <<"1">>],
     [content_type |-> "page", object_id |-> NoObjectId, object_selector |-> <<"x">>],
     [content_type |-> "tag", object_id |-> 1, object_selector |-> EMPTY]}

\* (content_type, object_id) given to save()
SaveTargets ==
    {[content_type |-> NoContentType, object_id |-> NoObjectId],
     [content_type |-> "page", object_id |-> 1]}

FormInputs ==
    {[subdomain |-> sub, redirect_type |-> ty, redirect_path |-> pa, is_active |-> ac,
      content_type |-> t.content_type, object_id |-> t.object_id,
      object_selector |-> t.object_selector] :
        sub \in FormSubdomains, ty \in REDIRECT_TYPE_CHOICES, pa \in Paths,
        ac \in Actives, t \in FormTargets}

SaveInputs ==
    {[subdomain |-> sub, redirect_type |-> ty, redirect_path |-> pa, is_active |-> ac,
      content_type |-> t.content_type, object_id |-> t.object_id] :
        sub \in SaveSubdomains, ty \in REDIRECT_TYPE_CHOICES, pa \in Paths,
        ac \in Actives, t \in SaveTargets}

\* the change form of row r: its target fields are posted as the row holds
\* them, the other fields as the administrator edits them
ChangeInputs(r) ==
    {[subdomain |-> sub, redirect_type |-> ty, redirect_path |-> pa, is_active |-> ac,
      content_type |-> r.content_type, object_id |-> r.object_id,
      object_selector |-> EMPTY] :
        sub \in FormSubdomains, ty \in REDIRECT_TYPE_CHOICES, pa \in Paths, ac \in Actives}

\* instance.save() on row r with fields reassigned; the target is kept
UpdateInputs(r) ==
    {[subdomain |-> sub, redirect_type |-> ty, redirect_path |-> pa, is_active |-> ac,
      content_type |-> r.content_type, object_id |-> r.object_id] :
        sub \in SaveSubdomains, ty \in REDIRECT_TYPE_CHOICES, pa \in Paths, ac \in Actives}

H_main == S_example_com
H_www == S_www \o <<".">> \o S_example_com
H_shop == S_shop \o <<".">> \o S_example_com
H_Shop_port == S_Shop_example_com \o <<":","8","0">>
H_a_b == S_a_dot_b \o <<".">> \o S_example_com
H_www_shop == S_www_dot_shop \o <<".">> \o S_example_com
Hosts == {H_main, H_www, H_shop, H_Shop_port, H_a_b, H_www_shop}
RequestPaths == {S_root, S_lol}
Requests == [host : Hosts, path : RequestPaths, secure : BOOLEAN]

\* subdomains the resolver is asked for
Queries == {S_shop, S_Shop, S_Shop_example_com, S_www}

----------------------------------------------------------------------------
(* The system: writes of the rule store between requests, and requests *)

Idle == last = NoExchange

NoProbe == [op |-> "none",
            arg |-> [subdomain |-> EMPTY, redirect_type |-> "", redirect_path |-> EMPTY,
                     is_active |-> FALSE, content_type |-> NoContentType,
                     object_id |-> NoObjectId],
            ret |-> [ok |-> FALSE, error |-> "",
                     rule |-> [subdomain |-> EMPTY, redirect_type |-> "",
                               redirect_path |-> EMPTY, is_active |-> FALSE,
                               content_type |-> NoContentType,
                               object_id |-> NoObjectId]]]

Init ==
    /\ rules = {}
    /\ validated = {}
    /\ objects = AllObjects
    /\ main_domain = S_example_com
    /\ last = NoExchange
    /\ probe = NoProbe

\* the admin add view: a valid SubdomainRedirectForm is saved
AdminAdd(data) ==
    /\ Idle
    /\ Cardinality(rules) < MaxRules
    /\ form_is_valid(data, rules, objects)
    /\ LET saved == form_instance(data, objects)
       IN  /\ rules' = rules \cup {saved}
           /\ validated' = validated \cup {saved.subdomain}
    /\ UNCHANGED <<objects, main_domain, last, probe>>

\* the admin change view of row r
AdminChange(r, data) ==
    /\ Idle
    /\ form_is_valid(data, rules \ {r}, objects)
    /\ LET saved == form_instance(data, objects)
       IN  /\ rules' = (rules \ {r}) \cup {saved}
           /\ validated' = (validated \ {r.subdomain}) \cup {saved.subdomain}
    /\ UNCHANGED <<objects, main_domain, last, probe>>

\* SubdomainRedirect(**data).save(): Model.save() is inherited, clean() is not
\* called, and the unique index rejects a second row with the same subdomain
ModelSave(data) ==
    /\ Idle
    /\ Cardinality(rules) < MaxRules
    /\ subdomain_is_unique(data.subdomain, rules)
    /\ rules' = rules \cup {data}
    /\ UNCHANGED <<validated, objects, main_domain, last, probe>>

\* r.save() after reassigning fields of the stored row r
ModelUpdate(r, data) ==
    /\ Idle
    /\ subdomain_is_unique(data.subdomain, rules \ {r})
    /\ rules' = (rules \ {r}) \cup {data}
    /\ validated' = validated \ {r.subdomain}
    /\ UNCHANGED <<objects, main_domain, last, probe>>

\* the row is deleted (admin delete view or r.delete())
DeleteRule(r) ==
    /\ Idle
    /\ rules' = rules \ {r}
    /\ validated' = validated \ {r.subdomain}
    /\ UNCHANGED <<objects, main_domain, last, probe>>

\* a row of the host project is deleted; the generic foreign key of a rule
\* that links to it is left as it is
DeleteObject(o) ==
    /\ Idle
    /\ objects' = objects \ {o}
    /\ UNCHANGED <<rules, validated, main_domain, last, probe>>

\* mutant of Request: the table read by the first request is kept and used
\* for every later request
Request_cached(request) ==
    /\ Idle
    /\ LET table == IF probe.op = "cached" THEN probe.arg ELSE rules
       IN  /\ last' = [NoExchange EXCEPT !.op = "request", !.request = request,
                           !.response = call(request, table, objects, main_domain)]
           /\ probe' = [op |-> "cached", arg |-> table, ret |-> NoProbe.ret]
    /\ UNCHANGED <<rules, validated, objects, main_domain>>

\* mutant of Request: a rule that redirected is switched off by the request
Request_switching_off(request) ==
    /\ Idle
    /\ LET response == call(request, rules, objects, main_domain)
       IN  /\ last' = [NoExchange EXCEPT !.op = "request", !.request = request,
                           !.response = response]
           /\ rules' = {IF response.kind = "redirect" /\ r.is_active
                           /\ Lower(r.subdomain) \in response.queried
                        THEN [r EXCEPT !.is_active = FALSE] ELSE r : r \in rules}
    /\ UNCHANGED <<validated, objects, main_domain, probe>>

\* one request through SubdomainRedirectMiddleware
Request(request) ==
    /\ Idle
    /\ last' = [NoExchange EXCEPT !.op = "request", !.request = request,
                    !.response = call(request, rules, objects, main_domain)]
    /\ UNCHANGED <<rules, validated, objects, main_domain, probe>>

\* SubdomainRedirect.get_redirect_for_subdomain(subdomain) called on the class
Resolve(subdomain) ==
    /\ Idle
    /\ last' = [NoExchange EXCEPT !.op = "resolve", !.query = subdomain,
                    !.result = get_redirect_for_subdomain(rules, subdomain)]
    /\ UNCHANGED <<rules, validated, objects, main_domain, probe>>

\* the call has returned
Finish ==
    /\ ~Idle
    /\ last' = NoExchange
    /\ UNCHANGED <<rules, validated, objects, main_domain, probe>>

Next ==
    \/ \E data \in FormInputs : AdminAdd(data)
    \/ \E r \in rules : \E data \in ChangeInputs(r) : AdminChange(r, data)
    \/ \E data \in SaveInputs : ModelSave(data)
    \/ \E r \in rules : \E data \in UpdateInputs(r) : ModelUpdate(r, data)
    \/ \E r \in rules : DeleteRule(r)
    \/ \E o \in objects : DeleteObject(o)
    \/ \E request \in Requests : Request(request)
    \/ \E subdomain \in Queries : Resolve(subdomain)
    \/ Finish

Spec == Init /\ [][Next]_vars

----------------------------------------------------------------------------
(* The same system with requests that arrive while the database is down *)

\* one request through SubdomainRedirectMiddleware while the database cannot
\* be reached: the query of get_redirect_for_subdomain raises
RequestDatabaseDown(request) ==
    /\ Idle
    /\ last' = [NoExchange EXCEPT !.op = "request_db_down", !.request = request,
                    !.response = call_with(request, rules, objects, main_domain,
                                           OperationalError)]
    /\ UNCHANGED <<rules, validated, objects, main_domain, probe>>

NextFault ==
    \/ Next
    \/ \E request \in Requests : RequestDatabaseDown(request)

SpecFault == Init /\ [][NextFault]_vars

----------------------------------------------------------------------------
(* The same system under either spelling of settings.MAIN_DOMAIN *)

S_Example_com == <<"E">> \o SubSeq(S_example_com, 2, Len(S_example_com))

\* values of settings.MAIN_DOMAIN
MainDomains == {S_example_com, S_Example_com}

InitDomain ==
    /\ rules = {}
    /\ validated = {}
    /\ objects = AllObjects
    /\ main_domain \in MainDomains
    /\ last = NoExchange
    /\ probe = NoProbe

SpecDomain == InitDomain /\ [][Next]_vars

----------------------------------------------------------------------------
(* The same system with redirect paths that do not start with a slash *)

S_at_other_host == <<"@","o","t","h","e","r",".","h","o","s","t","/">>
S_dot_evil_com == <<".","e","v","i","l",".","c","o","m","/">>

\* values of redirect_path an administrator may type: the field is a
\* CharField that clean() only tests for emptiness
OpenPaths == {EMPTY, S_store, S_at_other_host, S_dot_evil_com}

OpenFormInputs ==
    {[subdomain |-> sub, redirect_type |-> ty, redirect_path |-> pa, is_active |-> ac,
      content_type |-> t.content_type, object_id |-> t.object_id,
      object_selector |-> t.object_selector] :
        sub \in FormSubdomains, ty \in REDIRECT_TYPE_CHOICES, pa \in OpenPaths,
        ac \in Actives, t \in FormTargets}

NextOpen ==
    \/ \E data \in OpenFormInputs : AdminAdd(data)
    \/ \E r \in rules : DeleteRule(r)
    \/ \E request \in Requests : Request(request)
    \/ Finish

SpecOpen == Init /\ [][NextOpen]_vars

----------------------------------------------------------------------------
(* Validation of a single rule: clean() applied to one instance *)

CleanAlphabet == {"a", "B", "1", "-", "_", "."}

CleanSubdomains ==
    StringsUpTo(CleanAlphabet, MaxSubLen) \cup {S_a_b_c, S_ab_bang, S_Shop_example_com}

CleanInputs ==
    {[subdomain |-> sub, redirect_type |-> ty, redirect_path |-> pa, is_active |-> TRUE,
      content_type |-> NoContentType, object_id |-> NoObjectId] :
        sub \in CleanSubdomains, ty \in REDIRECT_TYPE_CHOICES, pa \in Paths}

InitClean ==
    /\ rules = {}
    /\ validated = {}
    /\ objects = AllObjects
    /\ main_domain = S_example_com
    /\ last = NoExchange
    /\ probe \in {[op |-> "instance", arg |-> r, ret |-> NoProbe.ret] : r \in CleanInputs}

\* instance.clean() is called on the instance
CleanCall ==
    /\ probe.op = "instance"
    /\ probe' = [op |-> "clean", arg |-> probe.arg, ret |-> clean(probe.arg)]
    /\ UNCHANGED <<rules, validated, objects, main_domain, last>>

NextClean == CleanCall

SpecClean == InitClean /\ [][NextClean]_vars

----------------------------------------------------------------------------
(* The add form of SubdomainRedirectAdmin posted once, against an empty table *)

InitForm ==
    /\ rules = {}
    /\ validated = {}
    /\ objects \in SUBSET AllObjects
    /\ main_domain = S_example_com
    /\ last = NoExchange
    /\ probe \in {[op |-> "posted", arg |-> d, ret |-> NoProbe.ret] : d \in FormInputs}

\* form.is_valid() is evaluated on the posted data; error is the message of
\* GenericObjectSelectorForm.clean, rule the row form.save() would write
FormSubmit ==
    /\ probe.op = "posted"
    /\ probe' = [op |-> "submitted", arg |-> probe.arg,
                 ret |-> [ok |-> form_is_valid(probe.arg, rules, objects),
                          error |-> form_clean(probe.arg, objects).error,
                          rule |-> IF form_is_valid(probe.arg, rules, objects)
                                   THEN form_instance(probe.arg, objects)
                                   ELSE NoProbe.ret.rule]]
    /\ UNCHANGED <<rules, validated, objects, main_domain, last>>

NextForm == FormSubmit

SpecForm == InitForm /\ [][NextForm]_vars

----------------------------------------------------------------------------
(* ipaddress: the text forms of IPv4 addresses and networks *)

\* s.startswith(prefix)
StartsWith(s, prefix) ==
    Len(prefix) <= Len(s) /\ SubSeq(s, 1, Len(prefix)) = prefix

\* s.split(c) for a one-character separator
RECURSIVE Split(_, _)
Split(s, c) ==
    IF ~Contains(s, c) THEN <<s>>
    ELSE LET first == SplitFirst(s, c)
         IN  <<first>> \o Split(SubSeq(s, Len(first) + 2, Len(s)), c)

WhitespaceChars == {" ", "\t"}

\* s.strip()
RECURSIVE Strip(_)
Strip(s) ==
    IF s = EMPTY THEN s
    ELSE IF s[1] \in WhitespaceChars THEN Strip(SubSeq(s, 2, Len(s)))
    ELSE IF s[Len(s)] \in WhitespaceChars THEN Strip(SubSeq(s, 1, Len(s) - 1))
    ELSE s

\* one decimal octet: 1 to 3 digits, no leading zero, at most 255
IsOctet(s) ==
    /\ IsDigits(s)
    /\ Len(s) <= 3
    /\ (Len(s) > 1 => s[1] # "0")
    /\ StrToInt(s) <= 255

\* ipaddress.ip_address(s) for IPv4 text: ok = no ValueError
ip_address(s) ==
    LET parts == Split(s, ".")
    IN  IF Len(parts) = 4 /\ \A i \in 1..4 : IsOctet(parts[i])
        THEN [ok |-> TRUE, octets |-> [i \in 1..4 |-> StrToInt(parts[i])]]
        ELSE [ok |-> FALSE, octets |-> <<>>]

\* the weight of the lowest of the bits of octet i a prefix of length
\* prefixlen covers (256 when it covers none of them)
HostBlock(prefixlen, i) ==
    LET covered == IF prefixlen - 8 * (i - 1) < 0 THEN 0
                   ELSE IF prefixlen - 8 * (i - 1) > 8 THEN 8
                   ELSE prefixlen - 8 * (i - 1)
    IN  2 ^ (8 - covered)

\* the address with the bits after the prefix cleared
Masked(octets, prefixlen) ==
    [i \in 1..4 |-> (octets[i] \div HostBlock(prefixlen, i)) * HostBlock(prefixlen, i)]

\* ipaddress.ip_network(s, strict=False) for 'address' and 'address/prefixlen':
\* host bits are cleared, a missing prefix length is 32; ok = no ValueError
ip_network(s) ==
    LET parts == Split(s, "/")
        address == ip_address(parts[1])
        has_prefix == Len(parts) = 2
        prefix_ok == has_prefix => (IsDigits(parts[2]) /\ StrToInt(parts[2]) <= 32)
    IN  IF Len(parts) <= 2 /\ address.ok /\ prefix_ok
        THEN LET prefixlen == IF has_prefix THEN StrToInt(parts[2]) ELSE 32
             IN  [ok |-> TRUE, network_address |-> Masked(address.octets, prefixlen),
                  prefixlen |-> prefixlen]
        ELSE [ok |-> FALSE, network_address |-> <<>>, prefixlen |-> 0]

\* address in network
in_network(octets, network) ==
    Masked(octets, network.prefixlen) = network.network_address

----------------------------------------------------------------------------
(* AdminIPRestrictionMiddleware *)

S_admin == <<"/","a","d","m","i","n","/">>

\* __init__: the entries of ADMIN_ALLOWED_IPS that parse
allowed_ip_objects(settings) ==
    {ip_address(ip).octets : ip \in {e \in settings.allowed_ips : ip_address(e).ok}}

\* __init__: the entries of ADMIN_ALLOWED_NETWORKS that parse
allowed_network_objects(settings) ==
    {[network_address |-> ip_network(n).network_address,
      prefixlen |-> ip_network(n).prefixlen] :
        n \in {e \in settings.allowed_networks : ip_network(e).ok}}

\* mutant of get_client_ip: X-Forwarded-For is read before CF-Connecting-IP
get_client_ip_forwarded_first(request) ==
    IF request.x_forwarded_for # EMPTY
    THEN Strip(SplitFirst(request.x_forwarded_for, ","))
    ELSE IF request.cf_ip # EMPTY THEN request.cf_ip
    ELSE IF request.real_ip # EMPTY THEN request.real_ip
    ELSE request.remote_addr

\* get_client_ip: a header that is absent or empty is the empty string
get_client_ip(request) ==
    IF request.cf_ip # EMPTY THEN request.cf_ip
    ELSE IF request.x_forwarded_for # EMPTY
    THEN Strip(SplitFirst(request.x_forwarded_for, ","))
    ELSE IF request.real_ip # EMPTY THEN request.real_ip
    ELSE request.remote_addr

\* mutant of is_ip_allowed: the networks are not looked at
is_ip_allowed_exact_only(client_ip, settings) ==
    /\ ip_address(client_ip).ok
    /\ ip_address(client_ip).octets \in allowed_ip_objects(settings)

\* is_ip_allowed
is_ip_allowed(client_ip, settings) ==
    LET client_ip_obj == ip_address(client_ip)
    IN  IF ~client_ip_obj.ok THEN FALSE
        ELSE IF client_ip_obj.octets \in allowed_ip_objects(settings) THEN TRUE
        ELSE \E network \in allowed_network_objects(settings) :
                 in_network(client_ip_obj.octets, network)

\* return self.get_response(request); seen = the client IP if it was computed
admin_get_response(request, seen) ==
    [kind |-> "passthrough", status |-> 200, downstream |-> 1,
     forwarded |-> {request}, client_ip |-> seen]

\* raise PermissionDenied(...)
permission_denied(client_ip) ==
    [kind |-> "PermissionDenied", status |-> 403, downstream |-> 0,
     forwarded |-> {}, client_ip |-> {client_ip}]

\* mutant of admin_call: every path that starts with '/admin' is restricted
admin_call_without_slash(request, settings) ==
    IF StartsWith(request.path, SubSeq(S_admin, 1, Len(S_admin) - 1))
    THEN IF ~settings.enabled
         THEN admin_get_response(request, {})
         ELSE LET client_ip == get_client_ip(request)
              IN  IF settings.allowed_ips = {} /\ settings.allowed_networks = {}
                  THEN permission_denied(client_ip)
                  ELSE IF ~is_ip_allowed(client_ip, settings)
                  THEN permission_denied(client_ip)
                  ELSE admin_get_response(request, {client_ip})
    ELSE admin_get_response(request, {})

\* mutant of admin_call: with nothing configured the admin is open
admin_call_open_by_default(request, settings) ==
    IF StartsWith(request.path, S_admin) /\ settings.enabled
    THEN LET client_ip == get_client_ip(request)
         IN  IF settings.allowed_ips = {} /\ settings.allowed_networks = {}
             THEN admin_get_response(request, {client_ip})
             ELSE IF ~is_ip_allowed(client_ip, settings)
             THEN permission_denied(client_ip)
             ELSE admin_get_response(request, {client_ip})
    ELSE admin_get_response(request, {})

\* AdminIPRestrictionMiddleware.__call__
admin_call(request, settings) ==
    IF StartsWith(request.path, S_admin)
    THEN IF ~settings.enabled
         THEN admin_get_response(request, {})
         ELSE LET client_ip == get_client_ip(request)
              IN  IF settings.allowed_ips = {} /\ settings.allowed_networks = {}
                  THEN permission_denied(client_ip)
                  ELSE IF ~is_ip_allowed(client_ip, settings)
                  THEN permission_denied(client_ip)
                  ELSE admin_get_response(request, {client_ip})
    ELSE admin_get_response(request, {})

\* addresses and networks, as written in settings and in request headers
IP_office == <<"1","0",".","0",".","0",".","5">>
IP_lan == <<"1","0",".","0",".","1",".","9">>
IP_out == <<"1","0",".","0",".","2",".","1">>
IP_public == <<"8",".","8",".","8",".","8">>
IP_bad_octet == <<"1","0",".","0",".","0",".","2","5","6">>
IP_short == <<"1","0",".","0",".","0">>
N_lan == <<"1","0",".","0",".","0",".","7","7","/","2","3">>
N_single == IP_out
N_bad_prefix == IP_public \o <<"/","3","3">>
XFF_lan_public == IP_lan \o <<",", " ">> \o IP_public
XFF_empty_first == <<",", " ">> \o IP_office

\* values of ADMIN_ALLOWED_IPS and ADMIN_ALLOWED_NETWORKS
AllowedIpLists == SUBSET {IP_office, IP_bad_octet}
AllowedNetworkLists == SUBSET {N_lan, N_single, N_bad_prefix}

AdminSettings ==
    [enabled : BOOLEAN, allowed_ips : AllowedIpLists,
     allowed_networks : AllowedNetworkLists]

AdminPaths == {S_admin, SubSeq(S_admin, 1, Len(S_admin) - 1), S_root}

AdminRequests ==
    [path : AdminPaths,
     cf_ip : {EMPTY, IP_office, IP_bad_octet},
     x_forwarded_for : {EMPTY, XFF_lan_public, XFF_empty_first},
     real_ip : {EMPTY, IP_out},
     remote_addr : {EMPTY, IP_office, IP_lan, IP_out, IP_public,
                    IP_bad_octet, IP_short}]

NoAdminResponse ==
    [kind |-> "idle", status |-> 0, downstream |-> 0, forwarded |-> {},
     client_ip |-> {}]

InitAdminIP ==
    /\ rules = {}
    /\ validated = {}
    /\ objects = AllObjects
    /\ main_domain = S_example_com
    /\ last = NoExchange
    /\ probe \in {[op |-> "admin_request",
                   arg |-> [request |-> request, settings |-> settings],
                   ret |-> NoAdminResponse] :
                     request \in AdminRequests, settings \in AdminSettings}

\* one request through AdminIPRestrictionMiddleware
AdminRequest ==
    /\ probe.op = "admin_request"
    /\ probe' = [op |-> "admin_answered", arg |-> probe.arg,
                 ret |-> admin_call(probe.arg.request, probe.arg.settings)]
    /\ UNCHANGED <<rules, validated, objects, main_domain, last>>

NextAdminIP == AdminRequest

SpecAdminIP == InitAdminIP /\ [][NextAdminIP]_vars

----------------------------------------------------------------------------
(* ImageExtension rows, ImageExtensionManager.prefetch_for_objects and the  *)
(* template tags get_images / get_image                                     *)

\* the injective sequences over the finite set S: every order of its elements
Orderings(S) ==
    {s \in [1..Cardinality(S) -> S] : \A i, j \in 1..Cardinality(S) : s[i] = s[j] => i = j}

\* lexicographic order on tuples of integers of the same length
LexLess(a, b) ==
    \E i \in DOMAIN a : a[i] < b[i] /\ \A j \in 1..(i-1) : a[j] = b[j]

\* '-is_featured' and -x.is_featured: featured rows first
FeaturedRank(img) == IF img.is_featured THEN 0 ELSE 1

\* the order of the image_type values drawn under the column's collation
TypeRank(image_type) == IF image_type = "hero" THEN 1 ELSE 2

\* a queryset ordered by the columns of key: the rows of S in any order the
\* database may return them, rows with equal key in either order
OrderedBy(S, key) ==
    {s \in Orderings(S) : \A i, j \in DOMAIN s : i < j => ~LexLess(key[s[j]], key[s[i]])}

\* list.sort(key=...): stable, rows with equal key keep the order they have in l
StableSort(l, key) ==
    CHOOSE s \in Orderings(Range(l)) :
        \A i, j \in DOMAIN s : i < j =>
            \/ LexLess(key[s[i]], key[s[j]])
            \/ /\ key[s[i]] = key[s[j]]
               /\ \E a, b \in DOMAIN l : a < b /\ l[a] = s[i] /\ l[b] = s[j]

\* the first element of a list, as the set holding it, or {} for None
FirstOf(l) == IF l = <<>> THEN {} ELSE {l[1]}

\* images_cache=None
NoCache == [given |-> FALSE, lists |-> <<>>]

\* ImageExtensionManager.prefetch_for_objects(objects): the caches it may
\* return, a dict from object_id to the list of that id's rows
prefetch_for_objects(images, objs) ==
    IF objs = <<>> THEN {[given |-> TRUE, lists |-> <<>>]}
    ELSE LET content_types == {objs[i].content_type : i \in DOMAIN objs}
             ids == {objs[i].id : i \in DOMAIN objs}
             all_images == {img \in images : img.content_type \in content_types
                                             /\ img.object_id \in ids}
             key == [img \in all_images |->
                        <<img.object_id, TypeRank(img.image_type), img.order,
                          FeaturedRank(img)>>]
             keys == {img.object_id : img \in all_images}
         IN  {[given |-> TRUE,
               lists |-> [id \in keys |->
                            SelectSeq(s, LAMBDA img : img.object_id = id)]] :
                s \in OrderedBy(all_images, key)}

\* get_images(obj, image_type, images_cache): the lists it may return
get_images(images, obj, image_type, images_cache) ==
    IF images_cache.given /\ DOMAIN images_cache.lists # {}
       /\ obj.id \in DOMAIN images_cache.lists
    THEN LET cached_images == images_cache.lists[obj.id]
             by_type == SelectSeq(cached_images, LAMBDA img : img.image_type = image_type)
             filtered_images ==
                 IF by_type # <<>> THEN by_type
                 ELSE SelectSeq(cached_images,
                                LAMBDA img : img.image_type = "other"
                                             /\ img.custom_type = image_type)
             key == [img \in Range(filtered_images) |-> <<img.order, FeaturedRank(img)>>]
         IN  {StableSort(filtered_images, key)}
    ELSE LET by_type == {img \in images : img.object_id = obj.id
                                          /\ img.image_type = image_type}
             found == IF by_type # {} THEN by_type
                      ELSE {img \in images : /\ img.object_id = obj.id
                                             /\ img.image_type = "other"
                                             /\ img.custom_type = image_type}
             key == [img \in found |-> <<img.order, FeaturedRank(img)>>]
         IN  OrderedBy(found, key)

\* get_image(obj, image_type, featured, images_cache): {} is None
get_image(images, obj, image_type, featured, images_cache) ==
    IF images_cache.given /\ obj.id \in DOMAIN images_cache.lists
    THEN LET cached_images == images_cache.lists[obj.id]
             by_type == SelectSeq(cached_images, LAMBDA img : img.image_type = image_type)
             typed == IF by_type # <<>> THEN by_type
                      ELSE SelectSeq(cached_images,
                                     LAMBDA img : img.image_type = "other"
                                                  /\ img.custom_type = image_type)
             filtered_images ==
                 IF featured # "None"
                 THEN SelectSeq(typed, LAMBDA img : img.is_featured = (featured = "True"))
                 ELSE typed
             key == [img \in Range(filtered_images) |->
                        <<FeaturedRank(img), img.order, img.id>>]
         IN  FirstOf(StableSort(filtered_images, key))
    ELSE IF ~images_cache.given
    THEN LET queryset == {img \in images :
                             /\ img.object_id = obj.id
                             /\ img.image_type = image_type
                             /\ (featured # "None" => img.is_featured = (featured = "True"))}
             key == [img \in queryset |-> <<FeaturedRank(img), img.order, img.id>>]
         IN  FirstOf(CHOOSE s \in OrderedBy(queryset, key) : TRUE)
    ELSE {}

\* the (image_type, custom_type) pairs of the rows drawn: a hero image, a
\* custom type 'cover' stored as 'other', and an 'other' without custom type
ImageKinds ==
    {[image_type |-> "hero", custom_type |-> ""],
     [image_type |-> "other", custom_type |-> "cover"],
     [image_type |-> "other", custom_type |-> ""]}

\* the rows the table may hold under primary key id
ImageRows(id) ==
    {[id |-> id, content_type |-> o.content_type, object_id |-> o.id,
      image_type |-> kind.image_type, custom_type |-> kind.custom_type,
      order |-> ord, is_featured |-> f] :
        o \in AllObjects, kind \in ImageKinds, ord \in {0, 1}, f \in BOOLEAN}

\* the tables with ids 1..n, n at most MaxImages
RECURSIVE ImageTables(_)
ImageTables(n) ==
    IF n = 0 THEN {{}}
    ELSE ImageTables(n - 1)
         \cup {t \cup {img} : t \in {u \in ImageTables(n - 1) : Cardinality(u) = n - 1},
                              img \in ImageRows(n)}

\* the image types asked for, and the values of the featured argument
AskedTypes == {"hero", "cover"}
FeaturedArgs == {"None", "True", "False"}

PageOne == [content_type |-> "page", id |-> 1]
TagOne == [content_type |-> "tag", id |-> 1]

\* the lists of objects a view prefetches for
ObjectLists == {<<PageOne>>, <<TagOne>>, <<PageOne, TagOne>>}

ImageQueries ==
    {q \in [images : ImageTables(MaxImages), obj : AllObjects, objs : ObjectLists,
             image_type : AskedTypes, featured : FeaturedArgs] :
        \E i \in DOMAIN q.objs : q.objs[i] = q.obj}

NoImageAnswer ==
    [image |-> {}, image_cached |-> {}, images |-> <<>>, images_cached |-> <<>>]

InitImages ==
    /\ rules = {}
    /\ validated = {}
    /\ objects = AllObjects
    /\ main_domain = S_example_com
    /\ last = NoExchange
    /\ probe \in {[op |-> "images_query", arg |-> q, ret |-> NoImageAnswer] :
                     q \in ImageQueries}

\* a template renders get_image and get_images for obj, once without a cache
\* and once with images_cache = ImageExtension.objects.prefetch_for_objects(objs)
ImagesRender ==
    /\ probe.op = "images_query"
    /\ LET q == probe.arg
       IN  \E images_cache \in prefetch_for_objects(q.images, q.objs) :
           \E plain \in get_images(q.images, q.obj, q.image_type, NoCache) :
           \E cached \in get_images(q.images, q.obj, q.image_type, images_cache) :
               probe' = [op |-> "images_rendered", arg |-> q,
                         ret |-> [image |-> get_image(q.images, q.obj, q.image_type,
                                                      q.featured, NoCache),
                                  image_cached |-> get_image(q.images, q.obj, q.image_type,
                                                             q.featured, images_cache),
                                  images |-> plain,
                                  images_cached |-> cached]]
    /\ UNCHANGED <<rules, validated, objects, main_domain, last>>

NextImages == ImagesRender

SpecImages == InitImages /\ [][NextImages]_vars

----------------------------------------------------------------------------
(* ImageExtension.save *)

\* the display labels of IMAGE_TYPE_CHOICES for the image types drawn
S_hero_display ==
    <<"H","e","r","o"," ","I","m","a","g","e"," ","(","R","e","c","o","m","m","e","n","d","e","d",":"," ","1","9","2","0","x","1","0","8","0",","," ","J","P","G",")">>
S_other_display ==
    <<"O","t","h","e","r"," ","(","S","p","e","c","i","f","y"," ","i","n"," ","c","u","s","t","o","m"," ","t","y","p","e"," ","f","i","e","l","d",")">>

\* self.get_image_type_display()
get_image_type_display(self) ==
    IF self.image_type = "hero" THEN S_hero_display ELSE S_other_display

\* str(obj) of a row of the host project, Model.__str__ as Django defines it
S_page_str == <<"P","a","g","e"," ","o","b","j","e","c","t"," ","(","1",")">>
S_tag_str == <<"T","a","g"," ","o","b","j","e","c","t"," ","(","1",")">>
S_None == <<"N","o","n","e">>
S_for == <<" ","f","o","r"," ">>

\* f"{self.content_object}": the linked row, or None when it does not exist
content_object_str(self, objs) ==
    IF \E o \in objs : o.content_type = self.content_type /\ o.id = self.object_id
    THEN (IF self.content_type = "page" THEN S_page_str ELSE S_tag_str)
    ELSE S_None

\* mutant of save: the title replaces the alt text whenever there is a title
save_title_wins(self, objs) ==
    IF self.title # EMPTY THEN [self EXCEPT !.alt_text = self.title]
    ELSE IF self.alt_text = EMPTY
    THEN [self EXCEPT !.alt_text =
              get_image_type_display(self) \o S_for \o content_object_str(self, objs)]
    ELSE self

\* ImageExtension.save: the row that is written
save(self, objs) ==
    IF self.alt_text = EMPTY /\ self.title # EMPTY
    THEN [self EXCEPT !.alt_text = self.title]
    ELSE IF self.alt_text = EMPTY
    THEN [self EXCEPT !.alt_text =
              get_image_type_display(self) \o S_for \o content_object_str(self, objs)]
    ELSE self

S_Cover == <<"C","o","v","e","r">>
S_Box_art == <<"B","o","x"," ","a","r","t">>

\* the instances save() is called on
ImageInstances ==
    {[content_type |-> o.content_type, object_id |-> o.id,
      image_type |-> kind.image_type, custom_type |-> kind.custom_type,
      title |-> ti, alt_text |-> alt, order |-> ord, is_featured |-> f] :
        o \in AllObjects, kind \in ImageKinds, ti \in {EMPTY, S_Cover},
        alt \in {EMPTY, S_Box_art}, ord \in {0, 1}, f \in BOOLEAN}

InitImageSave ==
    /\ rules = {}
    /\ validated = {}
    /\ objects \in SUBSET AllObjects
    /\ main_domain = S_example_com
    /\ last = NoExchange
    /\ probe \in {[op |-> "image_instance", arg |-> self, ret |-> self] :
                     self \in ImageInstances}

\* instance.save() is called
ImageSave ==
    /\ probe.op = "image_instance"
    /\ probe' = [op |-> "image_saved", arg |-> probe.arg,
                 ret |-> save(probe.arg, objects)]
    /\ UNCHANGED <<rules, validated, objects, main_domain, last>>

NextImageSave == ImageSave

SpecImageSave == InitImageSave /\ [][NextImageSave]_vars

----------------------------------------------------------------------------
(* SEOMixin *)

\* Python values an attribute, an extra_data entry or a _seo entry may hold:
\* None, a str, a list of str, or a related manager holding the titles of its rows
NoneValue == [type |-> "None", str |-> EMPTY, list |-> <<>>]
StrValue(s) == [type |-> "str", str |-> s, list |-> <<>>]
ListValue(l) == [type |-> "list", str |-> EMPTY, list |-> l]
ManagerValue(titles) == [type |-> "manager", str |-> EMPTY, list |-> titles]

\* d.get(key) and getattr(self, name, None): a dict and the attributes of an
\* instance are functions from names to values
dict_get(d, key) == IF key \in DOMAIN d THEN d[key] ELSE NoneValue

\* not (value is not None and value != "")
IsBlank(value) ==
    value.type = "None" \/ (value.type = "str" /\ value.str = EMPTY)

\* SEO_FALLBACKS: the model fields listed for each SEO property
SEO_FALLBACKS ==
    [key \in {"title", "description", "keywords"} |->
        IF key = "title" THEN <<"title", "name">>
        ELSE IF key = "description" THEN <<"summary", "description">>
        ELSE <<"keywords">>]

\* get_seo_value(key, default): extra_data, then the _seo mapping of the
\* class, then default; SEO_FALLBACKS is not read
get_seo_value(self, key, default) ==
    IF DOMAIN self.extra_data # {} /\ ~IsBlank(dict_get(self.extra_data, key))
    THEN dict_get(self.extra_data, key)
    ELSE LET entries == {i \in DOMAIN self.seo : self.seo[i].key = key}
         IN  IF entries # {}
             THEN LET entry == self.seo[CHOOSE i \in entries : TRUE]
                  IN  IF entry.kind = "field"
                      THEN (IF ~IsBlank(dict_get(self.attrs, entry.field))
                            THEN dict_get(self.attrs, entry.field)
                            ELSE default)
                      ELSE entry.value
             ELSE default

\* get_seo_title
get_seo_title(self) == get_seo_value(self, "title", StrValue(EMPTY))

\* [k.strip() for k in parts if k.strip()]
RECURSIVE StrippedNonEmpty(_)
StrippedNonEmpty(parts) ==
    IF parts = <<>> THEN <<>>
    ELSE (IF Strip(Head(parts)) # EMPTY THEN <<Strip(Head(parts))>> ELSE <<>>)
         \o StrippedNonEmpty(Tail(parts))

\* key.startswith('keyword_'), for the keys a _seo mapping is given here
KeywordKeys == {"keyword_genre", "keyword_tags"}

\* the loop of lines 72-89 over the entries of the _seo mapping from entry i on
RECURSIVE dynamic_keywords(_, _)
dynamic_keywords(self, i) ==
    IF i > Len(self.seo) THEN <<>>
    ELSE LET entry == self.seo[i]
             field_value == dict_get(self.attrs, entry.field)
             found ==
                 IF entry.key \in KeywordKeys /\ entry.kind = "field"
                    /\ entry.field \in DOMAIN self.attrs
                 THEN (IF field_value.type = "manager" THEN field_value.list
                       ELSE IF field_value.type = "str" /\ Strip(field_value.str) # EMPTY
                       THEN <<Strip(field_value.str)>>
                       ELSE <<>>)
                 ELSE <<>>
         IN  found \o dynamic_keywords(self, i + 1)

\* get_seo_keywords, default_keywords = SEO_DEFAULTS['keywords']
get_seo_keywords(self, default_keywords) ==
    LET value == get_seo_value(self, "keywords", ListValue(<<>>))
        keywords == IF value.type = "str"
                    THEN StrippedNonEmpty(Split(value.str, ","))
                    ELSE IF value.type = "list" THEN value.list
                    ELSE <<>>
        all_keywords == keywords \o dynamic_keywords(self, 1)
    IN  all_keywords
        \o SelectSeq(default_keywords, LAMBDA kw : kw \notin Range(all_keywords))

\* no such attribute, no such entry
Absent == [type |-> "absent", str |-> EMPTY, list |-> <<>>]

\* the dict holding the entries of the record c that are not Absent
AsDict(c) == [n \in {m \in DOMAIN c : c[m] # Absent} |-> c[n]]

K_a == <<"a">>
K_b == <<"b">>
K_c == <<"c">>
S_Hello == <<"H","e","l","l","o">>
S_Bob == <<"B","o","b">>
S_Override == <<"O","v","e","r","r","i","d","e">>
S_Site == <<"S","i","t","e">>
S_a_comma_b == <<"a",","," ","b">>
S_a_padded == <<" ","a"," ">>

\* the attributes of the instances drawn
SEOAttrs ==
    {AsDict(c) : c \in [title : {Absent, StrValue(EMPTY), StrValue(S_Hello)},
                        name : {Absent, StrValue(S_Bob)},
                        keywords : {Absent, StrValue(S_a_comma_b),
                                    ListValue(<<K_a, K_b>>)},
                        genre : {Absent, StrValue(S_a_padded),
                                 ManagerValue(<<K_c, K_a>>)}]}

\* the extra_data dicts drawn; the empty one also stands for no extra_data
SEOExtraData ==
    {AsDict(c) : c \in [title : {Absent, StrValue(EMPTY), StrValue(S_Override)},
                        keywords : {Absent, StrValue(S_a_comma_b)}]}

FieldEntry(key, field) ==
    [key |-> key, kind |-> "field", field |-> field, value |-> NoneValue]
StaticEntry(key, value) ==
    [key |-> key, kind |-> "static", field |-> "", value |-> value]

\* the _seo mappings of the classes drawn, in the order their keys are written
SEOMappings ==
    {<<>>,
     <<FieldEntry("title", "name")>>,
     <<StaticEntry("title", StrValue(S_Site))>>,
     <<FieldEntry("keywords", "keywords"), FieldEntry("keyword_genre", "genre")>>,
     <<FieldEntry("keyword_genre", "genre"), FieldEntry("keyword_tags", "name")>>}

\* settings.SEO_DEFAULTS['keywords']
SEODefaultKeywords == {<<>>, <<K_a>>, <<K_b, K_c>>}

NoSEOAnswer == [title |-> NoneValue, keywords |-> <<>>]

InitSEO ==
    /\ rules = {}
    /\ validated = {}
    /\ objects = AllObjects
    /\ main_domain = S_example_com
    /\ last = NoExchange
    /\ probe \in {[op |-> "seo_instance",
                   arg |-> [self |-> [extra_data |-> e, attrs |-> a, seo |-> m],
                            default_keywords |-> d],
                   ret |-> NoSEOAnswer] :
                     e \in SEOExtraData, a \in SEOAttrs, m \in SEOMappings,
                     d \in SEODefaultKeywords}

\* a template reads the SEO title and keywords of the instance
SEORender ==
    /\ probe.op = "seo_instance"
    /\ probe' = [op |-> "seo_rendered", arg |-> probe.arg,
                 ret |-> [title |-> get_seo_title(probe.arg.self),
                          keywords |-> get_seo_keywords(probe.arg.self,
                                                        probe.arg.default_keywords)]]
    /\ UNCHANGED <<rules, validated, objects, main_domain, last>>

NextSEO == SEORender

SpecSEO == InitSEO /\ [][NextSEO]_vars

----------------------------------------------------------------------------
(* Claims about the resolver and the interceptor, checked under Spec *)

\* the rows stored under subdomain s
RowsNamed(s) == {r \in rules : r.subdomain = s}

\* the rule a redirect response was computed from
Matched == {r \in rules : r.is_active /\ r.subdomain \in last.response.queried}

Redirected == last.op = "request" /\ last.response.kind = "redirect"

\* scheme + '://' + primary domain + path
UrlOf(secure, path) ==
    (IF secure THEN <<"h","t","t","p","s">> ELSE <<"h","t","t","p">>)
        \o <<":","/","/">> \o main_domain \o path

\* the rows a rule links to that exist
LinkedRows(r) ==
    {o \in objects : r.content_type # NoContentType /\ r.object_id # NoObjectId
                     /\ o.content_type = r.content_type /\ o.id = r.object_id}

\* C1: get_redirect_for_subdomain(s) returns the stored rule whose subdomain
\* is lowercase(s) when that rule is active, and None when no rule has that
\* subdomain or the rule with that subdomain is inactive.
C1_ResolverReturnsActiveRule ==
    last.op = "resolve" =>
        LET named == RowsNamed(Lower(last.query))
        IN  /\ \A r \in named :
                  r.is_active => last.result.found = "one" /\ last.result.rule = {r}
            /\ (named = {} \/ \E r \in named : ~r.is_active)
                  => last.result.found = "none" /\ last.result.rule = {}

\* a lookup of 'Shop' that returns the active rule stored as 'shop', in a
\* store that also holds an inactive rule
C1_Witness ==
    /\ last.op = "resolve" /\ last.query = S_Shop
    /\ last.result.found = "one"
    /\ \E r \in last.result.rule : r.subdomain = S_shop /\ r.is_active
    /\ \E r \in rules : ~r.is_active

C3_PathPreserveTarget ==
    Redirected =>
        \A r \in Matched :
            r.redirect_type = REDIRECT_TYPE_PATH_PRESERVE =>
                /\ last.response.location = UrlOf(last.request.secure, last.request.path)
                /\ get_redirect_url(r, last.request.path) = last.request.path

\* a redirect of /lol/ computed from a PATH_PRESERVE rule that holds a
\* redirect_path and links to an existing page
C3_Witness ==
    /\ Redirected
    /\ last.request.path = S_lol
    /\ \E r \in Matched :
          /\ r.redirect_type = REDIRECT_TYPE_PATH_PRESERVE
          /\ r.redirect_path = S_store
          /\ r.content_type = "page" /\ LinkedRows(r) # {}

\* the Location the spec's example names: https://example.com/store/
S_https_example_com_store ==
    <<"h","t","t","p","s",":","/","/">> \o S_example_com \o S_store

\* C4: when the resolver returns a rule, the answer is a permanent (301)
\* redirect whose Location is scheme + '://' + primary domain + computed
\* target, with scheme https for a secure request and http otherwise; a secure
\* request to shop.example.com with an active FULL rule to /store/ (and no
\* linked object with a URL of its own) gets https://example.com/store/.
C4_PermanentRedirectLocation ==
    last.op = "request" =>
        \A q \in last.response.queried :
            get_redirect_for_subdomain(rules, q).found = "one" =>
                /\ last.response.kind = "redirect"
                /\ last.response.status = 301
                /\ last.response.downstream = 0
                /\ \A r \in Matched :
                      /\ last.response.location =
                            UrlOf(last.request.secure,
                                  redirect_path_for(r, last.request, objects))
                      /\ (/\ last.request.secure
                          /\ last.request.host = H_shop
                          /\ r.redirect_type = REDIRECT_TYPE_FULL
                          /\ r.redirect_path = S_store
                          /\ ~(LinkedRows(r) # {} /\ r.content_type = "page"))
                            => last.response.location = S_https_example_com_store

\* the spec's example: a secure request to shop.example.com is answered 301
\* with Location https://example.com/store/
C4_Witness ==
    /\ last.op = "request"
    /\ last.request.secure /\ last.request.host = H_shop
    /\ last.response.status = 301
    /\ last.response.location = S_https_example_com_store

\* C5: in every reachable rule store (also one holding an active rule whose
\* subdomain is 'www'), a request whose host is the primary domain or 'www.' +
\* the primary domain is never redirected: it is passed to the downstream handler.
C5_MainAndWwwPassThrough ==
    (last.op = "request"
        /\ last.request.host \in {main_domain, S_www \o <<".">> \o main_domain})
      => /\ last.response.kind = "passthrough"
         /\ last.response.downstream = 1

\* a request to www.example.com passed through while the store holds an
\* active rule for 'www'
C5_Witness ==
    /\ last.op = "request" /\ last.request.host = H_www
    /\ last.response.kind = "passthrough"
    /\ \E r \in rules : r.subdomain = S_www /\ r.is_active

----------------------------------------------------------------------------
(* Claims about validation and the stored rules *)

ConfigErrors == {"full_requires_path", "preserve_forbids_path"}

\* every character a letter, a digit or a hyphen
OnlyLettersDigitsHyphens(s) == \A i \in DOMAIN s : s[i] \in AlnumSet \cup {"-"}

\* C6: validating a rule fails when redirect_type is FULL and redirect_path is
\* empty, and fails when redirect_type is PATH_PRESERVE and redirect_path is
\* not empty; in the two remaining combinations no error about the redirect
\* configuration is raised (and a rule with a well-formed subdomain is accepted).
C6_RedirectConfigValidated ==
    probe.op = "clean" =>
        LET full == probe.arg.redirect_type = REDIRECT_TYPE_FULL
            preserve == probe.arg.redirect_type = REDIRECT_TYPE_PATH_PRESERVE
            blank == probe.arg.redirect_path = EMPTY
        IN  /\ (full /\ blank) => ~probe.ret.ok
            /\ (preserve /\ ~blank) => ~probe.ret.ok
            /\ ((full /\ ~blank) \/ (preserve /\ blank)) =>
                  /\ probe.ret.error \notin ConfigErrors
                  /\ (IsAlnum(probe.arg.subdomain) /\ Len(probe.arg.subdomain) >= 2)
                        => probe.ret.ok

\* clean() has rejected a FULL rule with a well-formed subdomain because its
\* redirect_path is empty
C6_Witness ==
    /\ probe.op = "clean"
    /\ probe.arg.redirect_type = REDIRECT_TYPE_FULL /\ probe.arg.redirect_path = EMPTY
    /\ IsAlnum(probe.arg.subdomain) /\ Len(probe.arg.subdomain) >= 2
    /\ ~probe.ret.ok /\ probe.ret.error = "full_requires_path"

\* C7 as stated: subdomains are case-folded and stripped of any domain suffix
\* before storage and before lookup, so resolving 'Shop.example.com' returns
\* the same rule as resolving 'shop'.
C7_SuffixStrippedBeforeLookup ==
    (last.op = "resolve" /\ last.query = S_Shop_example_com)
        => last.result = get_redirect_for_subdomain(rules, S_shop)

\* C7 amended: the resolver only case-folds its argument: what it returns is
\* an active stored row whose subdomain is lowercase(s), so 'Shop' and 'shop'
\* resolve to the same rule, and 'Shop.example.com' never resolves to the rule
\* stored as 'shop'; the domain suffix is stripped (and the case folded) by
\* clean() before a write through the admin form.
C7_CaseFoldedLookupAndValidatedStorage ==
    /\ last.op = "resolve" =>
          /\ \A r \in last.result.rule :
                r \in rules /\ r.is_active /\ r.subdomain = Lower(last.query)
          /\ last.query = S_Shop =>
                /\ last.result.found = "none" <=> ~\E r \in RowsNamed(S_shop) : r.is_active
                /\ \A r \in RowsNamed(S_shop) : r.is_active => last.result.rule = {r}
          /\ last.query = S_Shop_example_com =>
                \A r \in last.result.rule : r.subdomain # S_shop
    /\ \A r \in rules :
          r.subdomain \in validated =>
              ~Contains(r.subdomain, ".") /\ r.subdomain = Lower(r.subdomain)

\* the rule typed as 'Shop.example.com' into the admin form is stored as
\* 'shop' and is what a lookup of 'Shop' returns
C7_Witness ==
    /\ last.op = "resolve" /\ last.query = S_Shop
    /\ last.result.found = "one"
    /\ \E r \in last.result.rule : r.subdomain = S_shop /\ r.subdomain \in validated

\* C8: clean() accepts a subdomain only if, after normalisation, it is at
\* least 2 characters long and every character is a letter, a digit or a
\* hyphen ('a_b-c' and 'ab!-' are rejected).
C8_OnlyLettersDigitsHyphensAccepted ==
    (probe.op = "clean" /\ probe.arg.subdomain # EMPTY /\ probe.ret.ok)
        => /\ Len(probe.ret.rule.subdomain) >= 2
           /\ OnlyLettersDigitsHyphens(probe.ret.rule.subdomain)

\* lowercase subdomain, and the redirect_path policy of the rule's type
WellFormed(r) ==
    /\ r.subdomain = Lower(r.subdomain)
    /\ r.redirect_type = REDIRECT_TYPE_FULL => r.redirect_path # EMPTY
    /\ r.redirect_type = REDIRECT_TYPE_PATH_PRESERVE => r.redirect_path = EMPTY

\* C9 as stated: every write is validated, through the admin form or through
\* the model's save: every stored rule has a lowercase subdomain and the
\* redirect_path its type asks for.
C9_EveryStoredRuleWellFormed == \A r \in rules : WellFormed(r)

\* C9 amended: every write through the admin form is validated: a stored rule
\* whose latest write went through the admin form has a lowercase subdomain
\* and the redirect_path its type asks for; the model's save() stores a rule
\* as given.
C9_FormWrittenRulesWellFormed ==
    \A r \in rules : r.subdomain \in validated => WellFormed(r)

\* two rules written through the admin form, one typed as 'Shop.example.com'
C9_Witness ==
    /\ Cardinality(rules) = 2
    /\ \A r \in rules : r.subdomain \in validated
    /\ \E r \in rules : r.subdomain = S_shop
    /\ \E r \in rules : r.redirect_type = REDIRECT_TYPE_PATH_PRESERVE

\* C10 as stated: no two stored rules share the same lowercased subdomain.
C10_UniqueLowercasedSubdomain ==
    \A r1, r2 \in rules : Lower(r1.subdomain) = Lower(r2.subdomain) => r1 = r2

\* C10 amended: no two stored rules share the same subdomain, compared as the
\* unique index compares it (case-sensitively), so a lookup for any subdomain
\* matches at most one active rule and the resolver never finds two.
C10_UniqueSubdomain ==
    /\ \A r1, r2 \in rules : r1.subdomain = r2.subdomain => r1 = r2
    /\ \A q \in Queries :
          Cardinality({r \in rules : r.is_active /\ r.subdomain = Lower(q)}) <= 1
    /\ last.op = "resolve" => last.result.found \in {"one", "none"}

\* a lookup of 'shop' that returns one rule while the store holds active rules
\* for 'shop' and for 'Shop'
C10_Witness ==
    /\ last.op = "resolve" /\ last.query = S_shop /\ last.result.found = "one"
    /\ \E r \in rules : r.subdomain = S_shop /\ r.is_active
    /\ \E r \in rules : r.subdomain = S_Shop /\ r.is_active

----------------------------------------------------------------------------
(* Claims about the polymorphic target *)

\* the target of rule r is set: both the type and the id
TargetSet(r) == r.content_type # NoContentType /\ r.object_id # NoObjectId

\* C11 as stated: in every reachable state, a stored rule whose target type
\* and target id are both set resolves to an existing object, also after the
\* linked object has been deleted.
C11_TargetAlwaysResolves ==
    \A r \in rules : TargetSet(r) => LinkedRows(r) # {}

\* C11: the target is checked when the rule is written through the admin
\* form, and only then: every row a form write stores has a target that
\* resolves to an object existing at that moment (the form rejects an id that
\* does not exist for the chosen type); nothing keeps the reference afterwards.
C11_FormWriteLinksExistingObject ==
    [][\A r \in rules' \ rules :
          r.subdomain \in validated' =>
              /\ TargetSet(r)
              /\ \E o \in objects' :
                    o.content_type = r.content_type /\ o.id = r.object_id]_vars

\* a rule written through the form whose linked object was deleted later:
\* its type and id are still set and resolve to nothing
C11_Witness ==
    \E r \in rules :
        /\ r.subdomain \in validated
        /\ TargetSet(r)
        /\ LinkedRows(r) = {}

\* C12 as stated: the polymorphic target is optional; a posted rule with no
\* target type and no target id whose other fields are valid is accepted by
\* the rule form of the admin.
C12_RuleWithoutTargetAccepted ==
    (/\ probe.op = "submitted"
     /\ probe.arg.content_type = NoContentType
     /\ probe.arg.object_id = NoObjectId
     /\ probe.arg.object_selector = EMPTY
     /\ probe.arg.subdomain # EMPTY
     /\ clean(instance_of(probe.arg, NoObjectId)).ok)
        => probe.ret.ok

----------------------------------------------------------------------------
(* Claims about the hostname, checked on requests *)

\* the Host header without its port, case-folded
FoldedHost(request) == Lower(SplitFirst(request.host, ":"))

\* what precedes '.' + domain in hostname h (h is assumed to end with it)
PrefixBefore(h, domain) == SubSeq(h, 1, Len(h) - Len(domain) - 1)

\* the request is for a subdomain of the primary domain other than www,
\* whatever the letter-casing of the host and of the configured domain
IsSubdomainRequest(request, md) ==
    /\ EndsWith(FoldedHost(request), <<".">> \o Lower(md))
    /\ PrefixBefore(FoldedHost(request), md) \notin {EMPTY, S_www}

\* C13 as stated: the hostname is compared with the configured primary
\* domain case-insensitively; for every letter-casing of the Host header and
\* of MAIN_DOMAIN, a host that is a subdomain of the primary domain is
\* recognised as one and handed to the resolver.
C13_DomainComparedCaseInsensitively ==
    (last.op = "request" /\ IsSubdomainRequest(last.request, main_domain))
        => last.response.queried # {}

\* the first label of the Host header, case-folded
LeftmostLabel(request) == SplitFirst(FoldedHost(request), ".")

\* C14 as stated: the candidate handed to the resolver is the leftmost label
\* of the hostname; 'a.b.' + primary domain is looked up as 'a', and for
\* 'www.shop.' + primary domain the leftmost label 'www' makes the request
\* pass through without a lookup.
C14_LeftmostLabelIsCandidate ==
    last.op = "request" =>
        /\ last.response.queried \subseteq {LeftmostLabel(last.request)}
        /\ LeftmostLabel(last.request) = S_www => last.response.queried = {}

\* C14: the candidate handed to the resolver is everything that precedes
\* '.' + primary domain in the hostname, which is the leftmost label only for
\* a host one level below the primary domain: 'a.b.' + primary domain is
\* looked up as 'a.b' and 'www.shop.' + primary domain as 'www.shop'; only
\* the candidates '' and 'www' skip the lookup.
C14_WholePrefixIsCandidate ==
    last.op = "request" =>
        LET h == FoldedHost(last.request)
            prefix == PrefixBefore(h, main_domain)
        IN  /\ last.response.queried =
                   IF EndsWith(h, <<".">> \o main_domain) /\ prefix \notin {EMPTY, S_www}
                   THEN {prefix} ELSE {}
            /\ last.request.host = H_a_b => last.response.queried = {S_a_dot_b}
            /\ last.request.host = H_www_shop
                   => last.response.queried = {S_www_dot_shop}
            /\ last.request.host = H_shop
                   => last.response.queried = {LeftmostLabel(last.request)}

\* a request for www.shop.example.com was looked up as 'www.shop' and passed
\* through because no rule is stored under that name
C14_Witness ==
    /\ last.op = "request"
    /\ last.request.host = H_www_shop
    /\ last.response.queried = {S_www_dot_shop}
    /\ last.response.kind = "passthrough"
    /\ \E r \in rules : r.subdomain = S_www /\ r.is_active

----------------------------------------------------------------------------
(* Claims about the outcome of a request *)

C16_RequestLeavesStoreUnchanged ==
    [][last'.op = "request" => (rules' = rules /\ objects' = objects)]_vars

\* a redirect was answered from a full store
C16_Witness ==
    /\ last.op = "request"
    /\ last.response.kind = "redirect"
    /\ Cardinality(rules) = MaxRules

\* C17: a lookup miss is not an error, the request passes through; any other
\* exception raised by the resolver call leaves the interceptor: no redirect
\* and no downstream response is produced for that request.
C17_MissPassesOtherExceptionsPropagate ==
    /\ (/\ last.op = "request"
         /\ last.response.queried # {}
         /\ \A q \in last.response.queried :
                ~\E r \in rules : r.subdomain = q /\ r.is_active)
            => (last.response.kind = "passthrough" /\ last.response.downstream = 1)
    /\ last.op = "request_db_down" =>
           IF IsSubdomainRequest(last.request, main_domain)
           THEN /\ last.response.kind = "OperationalError"
                /\ last.response.status \notin {200, 301}
                /\ last.response.location = EMPTY
                /\ last.response.downstream = 0
                /\ last.response.forwarded = {}
           ELSE last.response.kind = "passthrough"

\* the database failed during a request that an active rule would have
\* redirected
C17_Witness ==
    /\ last.op = "request_db_down"
    /\ last.response.kind = "OperationalError"
    /\ \E r \in rules : r.is_active /\ r.subdomain \in last.response.queried

\* what of a response does not depend on the spelling of the Host header
Outcome(response) ==
    [kind |-> response.kind, status |-> response.status,
     location |-> response.location, downstream |-> response.downstream]

\* C18: the port is stripped before matching: a request with Host 'h:p' gets
\* the same outcome (passthrough, or redirect with the same Location) as the
\* same request with Host 'h'.
C18_PortIgnored ==
    (last.op = "request" /\ Contains(last.request.host, ":")) =>
        LET without == [last.request EXCEPT !.host = SplitFirst(@, ":")]
            other == call(without, rules, objects, main_domain)
        IN  /\ Outcome(last.response) = Outcome(other)
            /\ last.response.queried = other.queried

\* Shop.example.com:80 was redirected
C18_Witness ==
    /\ last.op = "request"
    /\ last.request.host = H_Shop_port
    /\ last.response.kind = "redirect"
    /\ last.response.status = 301

----------------------------------------------------------------------------
(* Claims about AdminIPRestrictionMiddleware, checked under SpecAdminIP *)

\* the request of the probe is under /admin/ and the restriction is enabled
RestrictedAdminRequest ==
    /\ probe.op = "admin_answered"
    /\ probe.arg.settings.enabled
    /\ StartsWith(probe.arg.request.path, S_admin)

\* C19: admin access is secure by default: with the restriction enabled and
\* neither allowed IPs nor allowed networks configured, every request whose
\* path starts with '/admin/' is denied (PermissionDenied) whatever the client
\* IP, and the downstream handler is not invoked.
C19_SecureByDefault ==
    (/\ RestrictedAdminRequest
     /\ probe.arg.settings.allowed_ips = {}
     /\ probe.arg.settings.allowed_networks = {})
        => /\ probe.ret.kind = "PermissionDenied"
           /\ probe.ret.downstream = 0
           /\ probe.ret.forwarded = {}

\* a well-formed client address was denied because nothing is configured
C19_Witness ==
    /\ RestrictedAdminRequest
    /\ probe.arg.settings.allowed_ips = {}
    /\ probe.arg.settings.allowed_networks = {}
    /\ probe.ret.client_ip = {IP_office}
    /\ probe.ret.kind = "PermissionDenied"

\* the texts among the inputs that are IPv4 addresses
ValidAddresses == {IP_office, IP_lan, IP_out, IP_public}

\* for each configured network text, the input addresses that lie inside it:
\* 10.0.0.77/23 is 10.0.0.0 - 10.0.1.255, 10.0.2.1 is that one address, and
\* 8.8.8.8/33 is no network
AddressesInside ==
    [n \in {N_lan, N_single, N_bad_prefix} |->
        IF n = N_lan THEN {IP_office, IP_lan}
        ELSE IF n = N_single THEN {IP_out}
        ELSE {}]

\* the client IP is a valid address that equals a configured allowed IP or
\* lies inside a configured allowed network
Granted(client_ip, settings) ==
    /\ client_ip \in ValidAddresses
    /\ \/ client_ip \in settings.allowed_ips
       \/ \E n \in settings.allowed_networks : client_ip \in AddressesInside[n]

\* C20: with the restriction enabled, a request under '/admin/' reaches the
\* downstream handler if and only if the resolved client IP is a syntactically
\* valid address that equals one of the configured allowed IPs or lies inside
\* one of the configured allowed networks; an unparsable client IP and
\* unparsable configured entries never grant access.
C20_AllowedIffListed ==
    RestrictedAdminRequest =>
        /\ probe.ret.downstream = 1
              <=> \E c \in probe.ret.client_ip : Granted(c, probe.arg.settings)
        /\ probe.ret.downstream = 1 => probe.ret.kind = "passthrough"
        /\ probe.ret.downstream = 0 => probe.ret.kind = "PermissionDenied"

\* an address inside the configured network 10.0.0.77/23, taken from
\* X-Forwarded-For, reached the admin although it is not in the allowed IPs
C20_Witness ==
    /\ RestrictedAdminRequest
    /\ probe.ret.client_ip = {IP_lan}
    /\ probe.arg.settings.allowed_ips = {IP_office, IP_bad_octet}
    /\ probe.arg.settings.allowed_networks = {N_lan, N_bad_prefix}
    /\ probe.ret.downstream = 1

----------------------------------------------------------------------------
(* Claims about the image tags, checked under SpecImages *)

\* the image is attached to obj: its content type is obj's model and its
\* object_id is obj's id
AttachedTo(img, obj) ==
    img.content_type = obj.content_type /\ img.object_id = obj.id

\* C21 as stated: get_images and get_image return only images attached to
\* obj; an image attached to an object of a different model that has the same
\* id is never returned, with or without an images_cache.
C21_OnlyImagesOfTheObject ==
    probe.op = "images_rendered" =>
        /\ \A img \in probe.ret.image : AttachedTo(img, probe.arg.obj)
        /\ \A img \in probe.ret.image_cached : AttachedTo(img, probe.arg.obj)
        /\ \A i \in DOMAIN probe.ret.images :
              AttachedTo(probe.ret.images[i], probe.arg.obj)
        /\ \A i \in DOMAIN probe.ret.images_cached :
              AttachedTo(probe.ret.images_cached[i], probe.arg.obj)

\* C28 as stated: the prefetched cache is only an optimisation; for obj in
\* objs, get_image returns the same image with images_cache =
\* prefetch_for_objects(objs) as without a cache, for every image type
\* (custom types stored as 'other' included) and every featured filter, and
\* get_images returns the same images in the same order.
C28_CacheIsOnlyAnOptimisation ==
    probe.op = "images_rendered" =>
        /\ probe.ret.image_cached = probe.ret.image
        /\ probe.ret.images_cached = probe.ret.images

----------------------------------------------------------------------------
(* Claims about ImageExtension.save, checked under SpecImageSave *)

\* a hero image without title and alt text, attached to an existing page
S_hero_for_page ==
    <<"H","e","r","o"," ","I","m","a","g","e"," ","(","R","e","c","o","m","m","e","n","d","e","d",":"," ","1","9","2","0","x","1","0","8","0",","," ","J","P","G",")"," ","f","o","r"," ","P","a","g","e"," ","o","b","j","e","c","t"," ","(","1",")">>

----------------------------------------------------------------------------
(* Claims about SEOMixin, checked under SpecSEO *)

\* the first non-blank model field among those SEO_FALLBACKS lists for key
RECURSIVE FirstFallback(_, _)
FirstFallback(attrs, fields) ==
    IF fields = <<>> THEN StrValue(EMPTY)
    ELSE IF ~IsBlank(dict_get(attrs, Head(fields))) THEN dict_get(attrs, Head(fields))
    ELSE FirstFallback(attrs, Tail(fields))

\* C23 as stated: with no value for 'title' in extra_data, get_seo_title
\* returns the model's 'title' field if non-empty, else its 'name' field, in
\* the order of SEO_FALLBACKS, also when the class declares no _seo mapping.
C23_TitleFallsBackToModelFields ==
    (/\ probe.op = "seo_rendered"
     /\ IsBlank(dict_get(probe.arg.self.extra_data, "title"))
     /\ \A i \in DOMAIN probe.arg.self.seo : probe.arg.self.seo[i].key # "title")
        => probe.ret.title = FirstFallback(probe.arg.self.attrs, SEO_FALLBACKS["title"])

\* C29 as stated: get_seo_keywords merges the own keywords, the dynamic
\* keywords of the 'keyword_*' entries of _seo and the default keywords of the
\* settings without duplicates; no keyword appears twice in the returned list.
C29_NoDuplicateKeywords ==
    probe.op = "seo_rendered" =>
        \A i, j \in DOMAIN probe.ret.keywords :
            probe.ret.keywords[i] = probe.ret.keywords[j] => i = j

----------------------------------------------------------------------------
(* Claims about the target of a redirect, checked under SpecOpen *)

\* the text of s after the last c, or s when it holds no c
AfterLast(s, c) ==
    IF Contains(s, c)
    THEN SubSeq(s, (CHOOSE i \in DOMAIN s : s[i] = c /\ \A j \in (i+1)..Len(s) : s[j] # c) + 1,
                Len(s))
    ELSE s

\* the host a client connects to for an absolute URL scheme://authority/...:
\* the authority is what precedes the first '/', the host what follows its
\* userinfo (up to the last '@') and precedes its port
HostOfUrl(url) ==
    LET after_scheme == SubSeq(url, Len(SplitFirst(url, ":")) + 4, Len(url))
        authority == SplitFirst(after_scheme, "/")
    IN  SplitFirst(AfterLast(authority, "@"), ":")

\* C24 as stated: every redirect response points at the primary domain; for
\* every stored redirect_path, also one that does not start with '/', the host
\* of the Location URL is exactly the primary domain, so the request that
\* follows the redirect is passed through.
C24_RedirectStaysOnPrimaryDomain ==
    (last.op = "request" /\ last.response.kind = "redirect") =>
        /\ HostOfUrl(last.response.location) = main_domain
        /\ call([last.request EXCEPT !.host = HostOfUrl(last.response.location)],
                rules, objects, main_domain).kind = "passthrough"

----------------------------------------------------------------------------
(* Claims about the store a request is resolved against, checked under Spec *)

\* C25: each request is resolved against the current rule store, nothing is
\* cached across requests: whatever was answered before, a request for a
\* subdomain is redirected exactly when the store now holds an active rule for
\* it; after the rule is deactivated or deleted the request is passed through,
\* after it is reactivated the request is redirected again.
C25_ResolvedAgainstCurrentStore ==
    last.op = "request" =>
        IF IsSubdomainRequest(last.request, main_domain)
        THEN last.response.kind = "redirect"
                <=> \E r \in rules :
                       /\ r.is_active
                       /\ r.subdomain = PrefixBefore(FoldedHost(last.request), main_domain)
        ELSE last.response.kind = "passthrough"

\* a request for shop.example.com passed through while the only rule of the
\* store, written through the admin form for 'shop', is switched off
C25_Witness ==
    /\ last.op = "request"
    /\ last.request.host = H_shop
    /\ last.response.kind = "passthrough"
    /\ Cardinality(rules) = 1
    /\ \E r \in rules : r.subdomain = S_shop /\ ~r.is_active /\ S_shop \in validated

----------------------------------------------------------------------------
(* Further claims about AdminIPRestrictionMiddleware, under SpecAdminIP *)

\* C26: the middleware never denies a request whose path does not start with
\* '/admin/', and with ADMIN_IP_RESTRICTION_ENABLED false it never denies any
\* request: in both cases the downstream handler is invoked exactly once and
\* its response returned, whatever the client IP and the allow lists.
C26_OnlyRestrictedAdminPathsDenied ==
    (/\ probe.op = "admin_answered"
     /\ \/ ~StartsWith(probe.arg.request.path, S_admin)
        \/ ~probe.arg.settings.enabled)
        => /\ probe.ret.kind = "passthrough"
           /\ probe.ret.status = 200
           /\ probe.ret.downstream = 1
           /\ probe.ret.forwarded = {probe.arg.request}

\* '/admin' without the trailing slash went through with the restriction
\* enabled, nothing configured and no usable client IP
C26_Witness ==
    /\ probe.op = "admin_answered"
    /\ probe.arg.request.path = SubSeq(S_admin, 1, Len(S_admin) - 1)
    /\ probe.arg.settings.enabled
    /\ probe.arg.settings.allowed_ips = {}
    /\ probe.arg.settings.allowed_networks = {}
    /\ probe.arg.request.remote_addr = IP_bad_octet
    /\ probe.ret.downstream = 1

\* the four sources of the client IP in the order they are read, with the
\* first entry of X-Forwarded-For trimmed
ClientIpSources(request) ==
    <<request.cf_ip, Strip(SplitFirst(request.x_forwarded_for, ",")),
      request.real_ip, request.remote_addr>>

\* the first non-empty value of the sequence, or the empty string
FirstNonEmpty(values) ==
    IF \E i \in DOMAIN values : values[i] # EMPTY
    THEN values[CHOOSE i \in DOMAIN values :
                    values[i] # EMPTY /\ \A j \in 1..(i-1) : values[j] = EMPTY]
    ELSE EMPTY

\* C27 as stated: the client IP used for the decision is the first non-empty
\* of CF-Connecting-IP, the first comma-separated entry (trimmed) of
\* X-Forwarded-For, X-Real-IP and REMOTE_ADDR, so the decision depends on
\* that value only.
C27_FirstNonEmptyValueDecides ==
    RestrictedAdminRequest =>
        (probe.ret.downstream = 1
            <=> Granted(FirstNonEmpty(ClientIpSources(probe.arg.request)),
                        probe.arg.settings))

\* the client IP the first non-empty header gives: the header itself, or for
\* X-Forwarded-For its first entry trimmed, which may be empty
FirstHeaderValue(request) ==
    LET headers == <<request.cf_ip, request.x_forwarded_for,
                     request.real_ip, request.remote_addr>>
        first == IF \E i \in 1..4 : headers[i] # EMPTY
                 THEN CHOOSE i \in 1..4 :
                          headers[i] # EMPTY /\ \A j \in 1..(i-1) : headers[j] = EMPTY
                 ELSE 4
    IN  ClientIpSources(request)[first]

\* C27: the client IP used for the decision comes from the first non-empty
\* header among CF-Connecting-IP, X-Forwarded-For, X-Real-IP and REMOTE_ADDR;
\* X-Forwarded-For gives its first comma-separated entry, trimmed, also when
\* that entry is empty (the later headers are then not read and the request is
\* denied). The decision depends on that value and the settings only.
C27_FirstNonEmptyHeaderDecides ==
    RestrictedAdminRequest =>
        /\ probe.ret.client_ip = {FirstHeaderValue(probe.arg.request)}
        /\ probe.ret.downstream = 1
              <=> Granted(FirstHeaderValue(probe.arg.request), probe.arg.settings)

\* X-Forwarded-For ', 10.0.0.5' gave an empty client IP and the request was
\* denied although X-Real-IP holds an address the settings allow
C27_Witness ==
    /\ RestrictedAdminRequest
    /\ probe.arg.request.cf_ip = EMPTY
    /\ probe.arg.request.x_forwarded_for = XFF_empty_first
    /\ probe.arg.request.real_ip = IP_out
    /\ N_single \in probe.arg.settings.allowed_networks
    /\ probe.ret.client_ip = {EMPTY}
    /\ probe.ret.kind = "PermissionDenied"

============================================================================
